---- MODULE Spec2Model ----
(***************************************************************************)
(* A model of the Merkle tree of ahmadkaouk/merkle-tree.                   *)
(*                                                                         *)
(* The repository holds the tree twice: the generic MerkleTree<T: Hasher>  *)
(* of src/merkle_tree.rs and the concrete MerkleTree of src/lib.rs whose   *)
(* hash function is a stub returning the empty vector.  Both are modelled; *)
(* the variable `variant` says which one a behaviour runs.                 *)
(*                                                                         *)
(* Byte strings are finite sequences.  A byte is itself a finite nested    *)
(* sequence, so that a collision-free digest of the byte string d can be   *)
(* written as the one-byte string <<d>>: distinct inputs give distinct     *)
(* outputs, every output has length 1, and no arithmetic is needed.        *)
(* T::Hash is taken to be Vec<u8>, for which From<Vec<u8>>, Into<Vec<u8>>  *)
(* and AsRef<[u8]> leave the bytes as they are.                            *)
(*                                                                         *)
(* Vectors are indexed from 0 in the source and from 1 in TLA+: the        *)
(* source's levels[i][j] is levels[i + 1][j + 1] here.                     *)
(***************************************************************************)
EXTENDS Integers, Sequences, FiniteSets, TLC

\* Bounds of the model.
MaxHeight == 2
MaxInserts == 5

\* Two raw data bytes.
ByteA == << <<>>, <<>>, <<>> >>
ByteB == << <<>>, <<>>, <<>>, <<>>, <<>> >>

\* The data items handed to insert: "", "a", "b".
Data == { <<>>, <<ByteA>>, <<ByteB>> }

\* The two implementations of the repository.
Variants == {"generic", "lib"}

\* Implementations of the Hasher trait a generic tree is instantiated with:
\*   "stub"    what lib.rs's MerkleTree::hash does: always the empty vector;
\*   "digest"  a collision-free fixed-length digest (the SHA-256 of the
\*             trait's documentation), non-empty on every input;
\*   "sparse"  the same digest, except that the empty input hashes to the
\*             empty vector.
Hashers == {"stub", "digest", "sparse"}

VARIABLES
    variant,    \* which implementation: "generic" or "lib"
    hasher,     \* the tree's Hasher
    height,     \* the argument of new
    levels,     \* MerkleTree.levels, root level first
    panicked,   \* the last insert aborted on an index out of bounds
    pre,        \* levels as they were when the last insert was called
    items,      \* the data of the insert calls made so far, in order
    path,       \* the branch the last insert took: "new", "fill" or "grow"
    pos         \* the leaf index the last insert found empty, or -1

vars == <<variant, hasher, height, levels, panicked, pre, items, path, pos>>

----------------------------------------------------------------------------
\* Hasher::hash / MerkleTree::hash.
hash(h, data) ==
    CASE h = "stub" -> <<>>
      [] h = "digest" -> <<data>>
      [] h = "sparse" -> IF data = <<>> THEN <<>> ELSE <<data>>

\* a << n on usize (no wrap-around within the bounds of the model).
Shl(a, n) == a * 2^n

\* i is a valid index (from 0) of vector v.
InBounds(v, i) == i >= 0 /\ i < Len(v)

\* The marker of an unfilled leaf: T::Hash::from(vec![]) / vec![].
EmptyMarker == <<>>

\* x.as_ref().is_empty() / x.is_empty().
is_empty(x) == Len(x) = 0

----------------------------------------------------------------------------
\* MerkleTree::new

\* The value new pushes for one parent: merkle_tree.rs converts the
\* concatenation with data.into(), lib.rs hashes it.
NewParent(v, h, l, r) ==
    IF v = "generic" THEN l \o r ELSE hash(h, l \o r)

\* One iteration of the outer loop of new: the level built from the last
\* level pushed, 2 << i entries long.
NewLevel(v, h, last, i) ==
    [j \in 1..Shl(2, i) |-> NewParent(v, h, last[2 * (j - 1) + 1], last[2 * (j - 1) + 2])]

\* Iterations i, i-1, ..., 0 of the outer loop of new; lv is in push order.
RECURSIVE NewLoop(_, _, _, _)
NewLoop(v, h, lv, i) ==
    IF i < 0 THEN lv
    ELSE NewLoop(v, h, Append(lv, NewLevel(v, h, lv[Len(lv)], i)), i - 1)

\* Vec::reverse.
Reverse(s) == [k \in 1..Len(s) |-> s[Len(s) + 1 - k]]

\* The leaf level new starts from: 2 << height copies of hash(vec![]).
NewLeaves(h, H) == [k \in 1..Shl(2, H) |-> hash(h, <<>>)]

new(v, h, H) == Reverse(NewLoop(v, h, <<NewLeaves(h, H)>>, H - 1))

----------------------------------------------------------------------------
\* MerkleTree::root, MerkleTree::leaf

Leaves(lv) == lv[Len(lv)]

root(lv) == lv[1][1]

leaf(lv, index) == Leaves(lv)[index + 1]

----------------------------------------------------------------------------
\* MerkleTree::insert

\* .iter().enumerate().find(|(_i, x)| x.is_empty()): the index (from 0) of
\* the first empty leaf, or -1 for None.
FirstEmpty(lvs) ==
    IF \E k \in 1..Len(lvs) : is_empty(lvs[k])
    THEN (CHOOSE k \in 1..Len(lvs) :
              /\ is_empty(lvs[k])
              /\ \A m \in 1..(k - 1) : ~is_empty(lvs[m])) - 1
    ELSE -1

\* The branch loop without its `index /= 2`: the leaf index is used as it
\* is on every level.
HalveIndexForgotten(index) == index

\* `index /= 2`: the index the branch loop of insert works at one level up.
HalveIndex(index) == index \div 2

\* Iterations i, i-1, ..., 0 of the branch loop of insert.  index is the
\* working index before the iteration halves it.  An index out of bounds
\* aborts the call with the levels as they are at that moment.
RECURSIVE RecomputeBranch(_, _, _, _)
RecomputeBranch(h, lv, index, i) ==
    IF i < 0 THEN [levels |-> lv, panicked |-> FALSE]
    ELSE LET idx == HalveIndex(index) IN
         IF ~(/\ InBounds(lv[i + 2], idx * 2)
              /\ InBounds(lv[i + 2], idx * 2 + 1)
              /\ InBounds(lv[i + 1], idx))
         THEN [levels |-> lv, panicked |-> TRUE]
         ELSE RecomputeBranch(
                  h,
                  [lv EXCEPT ![i + 1][idx + 1] =
                       hash(h, lv[i + 2][idx * 2 + 1] \o lv[i + 2][idx * 2 + 2])],
                  idx, i - 1)

\* The branch of insert taken when leaf p is empty.
InsertAt(h, lv, p, data) ==
    RecomputeBranch(h, [lv EXCEPT ![Len(lv)][p + 1] = hash(h, data)], p, Len(lv) - 2)

----------------------------------------------------------------------------
\* MerkleTree::reseize_and_insert

\* Vec::resize(n, fill).
Resize(v, n, fill) == [k \in 1..n |-> IF k <= Len(v) THEN v[k] ELSE fill]

\* The loops of reseize_and_insert from iteration (i, j) on; index is the
\* start of the inner range of iteration i.  An index out of bounds aborts
\* the call with the levels as they are at that moment.
RECURSIVE RecomputeNew(_, _, _, _, _)
RecomputeNew(h, lv, index, i, j) ==
    IF i < 0 THEN [levels |-> lv, panicked |-> FALSE]
    ELSE IF j >= Shl(2, i)
    THEN RecomputeNew(h, lv, index \div 2, i - 1, index \div 2)
    ELSE IF ~(/\ InBounds(lv[i + 2], j * 2)
              /\ InBounds(lv[i + 2], j * 2 + 1)
              /\ InBounds(lv[i + 1], j))
    THEN [levels |-> lv, panicked |-> TRUE]
    ELSE RecomputeNew(
             h,
             [lv EXCEPT ![i + 1][j + 1] =
                  hash(h, lv[i + 2][j * 2 + 1] \o lv[i + 2][j * 2 + 2])],
             index, i, j + 1)

\* The levels once the new top level is inserted at the front and the hash
\* of the data is pushed onto the leaf level.
Pushed(h, lv, data) ==
    LET l1 == << <<>> >> \o lv
    IN [l1 EXCEPT ![Len(l1)] = Append(l1[Len(l1)], hash(h, data))]

\* The leaf level resized to twice its length after the push.
Resized(h, lv, data) ==
    LET l2 == Pushed(h, lv, data)
        len == Len(Leaves(l2))
    IN [l2 EXCEPT ![Len(l2)] = Resize(Leaves(l2), 2 * len, EmptyMarker)]

reseize_and_insert(h, lv, data) ==
    LET len == Len(Leaves(Pushed(h, lv, data)))
        l3 == Resized(h, lv, data)
        index == len \div 2
    IN RecomputeNew(h, l3, index, Len(l3) - 2, index)

\* insert: the outcome of one call, with the branch taken and the leaf
\* index found.
insert(h, lv, data) ==
    LET p == FirstEmpty(Leaves(lv)) IN
    IF p # -1
    THEN LET r == InsertAt(h, lv, p, data)
         IN [levels |-> r.levels, panicked |-> r.panicked, path |-> "fill", pos |-> p]
    ELSE LET r == reseize_and_insert(h, lv, data)
         IN [levels |-> r.levels, panicked |-> r.panicked, path |-> "grow", pos |-> -1]

----------------------------------------------------------------------------
\* The state machine: a tree is constructed, then insert is called again
\* and again.  A call that aborts ends the behaviour.

Init ==
    /\ variant \in Variants
    /\ hasher \in (IF variant = "lib" THEN {"stub"} ELSE Hashers)
    /\ height \in 0..MaxHeight
    /\ levels = new(variant, hasher, height)
    /\ panicked = FALSE
    /\ pre = levels
    /\ items = <<>>
    /\ path = "new"
    /\ pos = -1

Insert(data) ==
    /\ ~panicked
    /\ Len(items) < MaxInserts
    /\ LET r == insert(hasher, levels, data) IN
         /\ levels' = r.levels
         /\ panicked' = r.panicked
         /\ path' = r.path
         /\ pos' = r.pos
    /\ pre' = levels
    /\ items' = Append(items, data)
    /\ UNCHANGED <<variant, hasher, height>>

Next == \E data \in Data : Insert(data)

Spec == Init /\ [][Next]_vars

\* The generic tree with a hasher that agrees with the tree on what an
\* empty leaf is (the hash of the empty input is the empty marker): the
\* behaviours in which leaves fill up from the left until the tree is full.
InitSparse == Init /\ variant = "generic" /\ hasher = "sparse"

SpecSparse == InitSparse /\ [][Next]_vars

----------------------------------------------------------------------------
\* Helpers of the properties below.

\* The leaf capacity new(height) is specified to give: 2^(height + 1).
Capacity == 2^(height + 1)

\* The level above lvl in a binary hash tree: each entry the hash of the
\* concatenation of its two children.
PairUp(h, lvl) ==
    [j \in 1..(Len(lvl) \div 2) |-> hash(h, lvl[2 * j - 1] \o lvl[2 * j])]

\* The recursive pairwise hash over a whole level whose length is a power
\* of two.
RECURSIVE MerkleRoot(_, _)
MerkleRoot(h, lvl) ==
    IF Len(lvl) <= 1 THEN lvl[1] ELSE MerkleRoot(h, PairUp(h, lvl))

\* The index at k levels above the leaves of the ancestor of leaf p.
Ancestor(p, k) == p \div 2^k

\* The data of the last insert call.
LastItem == items[Len(items)]

----------------------------------------------------------------------------
\* C1: every insert completes without a bounds failure; an insert into a
\* tree with no empty leaf returns normally, strictly increases the leaf
\* capacity and leaves root() and leaf(i) defined.
C1_InsertAlwaysCompletes ==
    /\ ~panicked
    /\ path = "grow" =>
         /\ Len(Leaves(levels)) > Len(Leaves(pre))
         /\ Len(levels[1]) >= 1

\* C2: whenever no insert is in progress, every internal slot is the hash of
\* the concatenation of its two children in the level below, after
\* construction and after every insert.
C2_InternalSlotsAreHashes ==
    ~panicked =>
        \A i \in 1..(Len(levels) - 1) :
            \A j \in 1..Len(levels[i]) :
                /\ 2 * j <= Len(levels[i + 1])
                /\ levels[i][j] =
                       hash(hasher, levels[i + 1][2 * j - 1] \o levels[i + 1][2 * j])

\* C3: the levels have the shape of a single-rooted complete binary tree:
\* level 0 has one entry and level i has 2^i entries.
C3_SingleRootedShape ==
    ~panicked =>
        /\ Len(levels[1]) = 1
        /\ \A i \in 1..Len(levels) : Len(levels[i]) = 2^(i - 1)

\* C4: as long as the tree has not grown, root() is the recursive pairwise
\* hash over all leaf slots; for new(1) followed by insert("a"), leaf(0) is
\* hash("a") and root() is
\* hash(hash(hash("a") ++ EMPTY) ++ hash(EMPTY ++ EMPTY)); an insert that
\* fills a free slot, in either half of the leaf level, changes root().
C4_RootCommitsToAllLeaves ==
    (~panicked /\ path # "grow") =>
        /\ root(levels) = MerkleRoot(hasher, Leaves(levels))
        /\ (path = "fill" /\ leaf(levels, pos) # leaf(pre, pos)) =>
             root(levels) # root(pre)
        /\ (height = 1 /\ items = << <<ByteA>> >>) =>
             /\ leaf(levels, 0) = hash(hasher, <<ByteA>>)
             /\ root(levels) =
                    hash(hasher,
                         hash(hasher, hash(hasher, <<ByteA>>) \o EmptyMarker)
                         \o hash(hasher, EmptyMarker \o EmptyMarker))

\* C5: after k <= C insertions into new(H), C = 2^(H+1), leaf slots
\* 0..k-1 are non-empty and slot i holds the hash of the i-th item, and
\* slots k..C-1 are still the empty marker.
C5_LeftToRightFill ==
    (~panicked /\ Len(items) <= Capacity) =>
        /\ Len(Leaves(levels)) = Capacity
        /\ \A i \in 1..Capacity :
               IF i <= Len(items)
               THEN /\ ~is_empty(Leaves(levels)[i])
                    /\ Leaves(levels)[i] = hash(hasher, items[i])
               ELSE Leaves(levels)[i] = EmptyMarker

\* C6: immediately after new(H) the leaf level has 2^(H+1) slots, every
\* leaf is the zero-length empty marker, and the emptiness scan of insert
\* finds a free slot.
C6_FreshLeavesAreEmptyMarkers ==
    path = "new" =>
        /\ Len(Leaves(levels)) = Capacity
        /\ \A i \in 0..(Capacity - 1) : leaf(levels, i) = EmptyMarker
        /\ FirstEmpty(Leaves(levels)) # -1

\* C7: an insert into a full tree of C leaf slots and L levels gives L+1
\* levels and a leaf level of exactly 2C slots: slots 0..C-1 as before,
\* slot C the hash of the data, slots C+1..2C-1 empty.
C7_GrowDoublesLeaves ==
    path = "grow" =>
        LET C == Len(Leaves(pre)) IN
        /\ Len(levels) = Len(pre) + 1
        /\ Len(Leaves(levels)) = 2 * C
        /\ \A i \in 0..(C - 1) : leaf(levels, i) = leaf(pre, i)
        /\ leaf(levels, C) = hash(hasher, LastItem)
        /\ \A i \in (C + 1)..(2 * C - 1) : leaf(levels, i) = EmptyMarker

\* C8: an insert that aborts on a bounds failure leaves the levels exactly
\* as they were before the call.
C8_AbortedInsertChangesNothing ==
    panicked => levels = pre

\* C9: an insert that finds leaf p empty completes with every index on its
\* path within bounds, keeps the number of levels and the length of every
\* level, and changes no slot other than leaf p and, k levels above the
\* leaves, the slot p / 2^k.
C9_FillTouchesOnlyThePath ==
    path = "fill" =>
        /\ ~panicked
        /\ InBounds(Leaves(pre), pos)
        /\ Len(levels) = Len(pre)
        /\ \A i \in 1..Len(levels) :
               LET a == Ancestor(pos, Len(levels) - i) IN
               /\ Len(levels[i]) = Len(pre[i])
               /\ InBounds(pre[i], a)
               /\ i < Len(levels) => InBounds(pre[i + 1], 2 * a + 1)
               /\ \A j \in 1..Len(levels[i]) :
                      j - 1 # a => levels[i][j] = pre[i][j]

\* A fill of a leaf in the right half of an eight-leaf tree that changed
\* the leaf and its ancestor on each of the two levels above.
C9_Witness ==
    /\ path = "fill"
    /\ ~panicked
    /\ height = 2
    /\ pos = 4
    /\ leaf(levels, 4) # leaf(pre, 4)
    /\ levels[2][3] # pre[2][3]
    /\ levels[1][2] # pre[1][2]

\* C10: the grow path is entered by an insert exactly when no leaf slot is
\* the empty marker at the moment of the call, and never before 2^(H+1)
\* items have been inserted.
C10_GrowOnlyWhenFull ==
    path # "new" =>
        /\ (path = "grow") <=> (FirstEmpty(Leaves(pre)) = -1)
        /\ path = "grow" => Len(items) - 1 >= Capacity

====
